---- MODULE Spec2Model ----
(***************************************************************************)
(* Item catalog over HTTP backed by a bbolt database (src/main.go).        *)
(*                                                                         *)
(* The model has one process per in-flight HTTP request (a client slot),   *)
(* the committed database (root), the database's writer lock (rwlock) and  *)
(* the startup sequence of main.  Strings and byte slices are sequences of *)
(* one-character strings, so that the JSON codec and the byte order of the *)
(* bucket's keys are computed, not assumed.                                *)
(***************************************************************************)
EXTENDS Naturals, Sequences, FiniteSets

\* Number of HTTP requests served concurrently (goroutines of net/http).
NumClients == 2
\* Number of requests issued in one behaviour.
MaxRequests == 2

Clients == 1..NumClients

Quote == "\""
Backslash == "\\"

\* Route ids matched by "/items/{id}": never empty.
RouteIDs == {<<"a">>, <<"b">>}

\* type Item struct { ID string; Name string }
Item(id, name) == [ID |-> id, Name |-> name]
ZeroItem == Item(<< >>, << >>)
\* The Items that requests carry: one with an empty ID, and names that need
\* escaping in JSON.
Items == {Item(<< >>, <<"n">>), Item(<<"a">>, <<Quote>>), Item(<<"b">>, <<Quote>>)}

(***************************************************************************)
(* encoding/json, for the struct Item.                                     *)
(***************************************************************************)
RECURSIVE Escape(_)
Escape(s) ==
    IF s = << >> THEN << >>
    ELSE (IF Head(s) \in {Quote, Backslash} THEN <<Backslash, Head(s)>> ELSE <<Head(s)>>)
         \o Escape(Tail(s))

EncodeString(s) == <<Quote>> \o Escape(s) \o <<Quote>>

\* json.Marshal(item): {"id":"...","name":"..."}
Marshal(item) ==
    <<"{">> \o EncodeString(<<"i", "d">>) \o <<":">> \o EncodeString(item.ID)
    \o <<",">> \o EncodeString(<<"n", "a", "m", "e">>) \o <<":">> \o EncodeString(item.Name)
    \o <<"}">>

\* Scans a string literal whose opening quote is at b[i-1]; acc is the text so far.
RECURSIVE ScanString(_, _, _)
ScanString(b, i, acc) ==
    IF i > Len(b) THEN [ok |-> FALSE, val |-> << >>, next |-> i]
    ELSE IF b[i] = Quote THEN [ok |-> TRUE, val |-> acc, next |-> i + 1]
    ELSE IF b[i] = Backslash
         THEN IF i + 1 <= Len(b) /\ b[i + 1] \in {Quote, Backslash}
              THEN ScanString(b, i + 2, Append(acc, b[i + 1]))
              ELSE [ok |-> FALSE, val |-> << >>, next |-> i]
    ELSE ScanString(b, i + 1, Append(acc, b[i]))

\* TRUE iff the bytes of b from position i on start with lit.
HasPrefixAt(b, i, lit) ==
    /\ i + Len(lit) - 1 <= Len(b)
    /\ \A j \in 1..Len(lit) : b[i + j - 1] = lit[j]

IdKey == <<"{">> \o EncodeString(<<"i", "d">>) \o <<":", Quote>>
NameKey == <<",">> \o EncodeString(<<"n", "a", "m", "e">>) \o <<":", Quote>>

\* json.Unmarshal(v, &item): err is TRUE when v is not the encoding of an Item.
Unmarshal(v) ==
    IF ~HasPrefixAt(v, 1, IdKey) THEN [err |-> TRUE, item |-> ZeroItem]
    ELSE LET s1 == ScanString(v, Len(IdKey) + 1, << >>) IN
         IF ~s1.ok \/ ~HasPrefixAt(v, s1.next, NameKey)
         THEN [err |-> TRUE, item |-> ZeroItem]
         ELSE LET s2 == ScanString(v, s1.next + Len(NameKey), << >>) IN
              IF s2.ok /\ s2.next = Len(v) /\ v[s2.next] = "}"
              THEN [err |-> FALSE, item |-> Item(s1.val, s2.val)]
              ELSE [err |-> TRUE, item |-> ZeroItem]

\* Request bodies of POST and PUT: the encoding of an Item, or a truncated one.
BadBody == SubSeq(Marshal(ZeroItem), 1, 6)
Bodies == {Marshal(x) : x \in Items} \cup {BadBody}

(***************************************************************************)
(* bbolt: a database is one bucket "items" (present or not) of key/value   *)
(* pairs; keys are iterated in byte order.                                 *)
(***************************************************************************)
EmptyKV == [k \in {} |-> << >>]
NoBucketDB == [bucket |-> FALSE, kv |-> EmptyKV]
EmptyDB == [bucket |-> TRUE, kv |-> EmptyKV]

Ord(ch) == CASE ch = "a" -> 97 [] ch = "b" -> 98 [] OTHER -> 0

\* bytes.Compare(s, t) < 0
RECURSIVE LexLess(_, _)
LexLess(s, t) ==
    IF t = << >> THEN FALSE
    ELSE IF s = << >> THEN TRUE
    ELSE IF Head(s) = Head(t) THEN LexLess(Tail(s), Tail(t))
    ELSE Ord(Head(s)) < Ord(Head(t))

\* Variant: startup does not create the bucket.
CreateBucketSkipped(db) == db
\* tx.CreateBucketIfNotExists([]byte("items"))
CreateBucketIfNotExists(db) == [db EXCEPT !.bucket = TRUE]

\* b.Put(key, value) fails with ErrKeyRequired on an empty key.
PutErr(key) == key = << >>
\* Variant: a put that keeps the value of a key already present.
PutIfAbsent(kv, key, value) ==
    [k \in DOMAIN kv \cup {key} |-> IF k \in DOMAIN kv THEN kv[k] ELSE value]
\* Variant: a put that stores the value without its last byte.
PutTruncated(kv, key, value) ==
    [k \in DOMAIN kv \cup {key} |->
        IF k = key THEN SubSeq(value, 1, Len(value) - 1) ELSE kv[k]]
Put(kv, key, value) == [k \in DOMAIN kv \cup {key} |-> IF k = key THEN value ELSE kv[k]]

\* Variant: a delete that also removes the keys that begin with the key.
DeletePrefix(kv, key) ==
    [k \in {j \in DOMAIN kv : SubSeq(j, 1, Len(key)) # key} |-> kv[k]]
\* Variant: a delete that removes nothing.
DeleteNothing(kv, key) == kv
\* b.Delete(key) removes the key.
Delete(kv, key) == [k \in DOMAIN kv \ {key} |-> kv[k]]

\* Variant: deleting an absent key is an error.
DeleteErrAbsent(kv, key) == key \notin DOMAIN kv
\* b.Delete(key): removing an absent key is not an error.
DeleteErr(kv, key) == FALSE

\* b.Get(key) returns nil when the key is absent.
Has(kv, key) == key \in DOMAIN kv

\* The cursor of b.ForEach: the keys after cur (<< >> before the first key).
KeysAfter(kv, cur) == {k \in DOMAIN kv : LexLess(cur, k)}
HasNext(kv, cur) == KeysAfter(kv, cur) # {}
\* Variant: a cursor that moves to the last key.
NextKeyLast(kv, cur) ==
    CHOOSE k \in KeysAfter(kv, cur) : \A j \in KeysAfter(kv, cur) : j = k \/ LexLess(j, k)
NextKey(kv, cur) ==
    CHOOSE k \in KeysAfter(kv, cur) : \A j \in KeysAfter(kv, cur) : j = k \/ LexLess(k, j)

(***************************************************************************)
(* net/http: the ResponseWriter.  status 0 means the header is not yet     *)
(* written; body is the sequence of chunks written.                        *)
(***************************************************************************)
StatusOK == 200
StatusCreated == 201
StatusBadRequest == 400
StatusNotFound == 404
StatusInternalServerError == 500

NewWriter == [status |-> 0, body |-> << >>]
WriteHeader(w, code) == IF w.status = 0 THEN [w EXCEPT !.status = code] ELSE w
Write(w, data) == [WriteHeader(w, StatusOK) EXCEPT !.body = Append(@, data)]
NotFoundText == <<"404 page not found", "\n">>
ErrorText == <<"err.Error()", "\n">>
\* http.Error(w, err.Error(), code)
HttpError(w, code) == Write(WriteHeader(w, code), ErrorText)
\* http.NotFound(w, r)
HttpNotFound(w) == Write(WriteHeader(w, StatusNotFound), NotFoundText)
\* A handler that returns without writing anything answers 200.
Finish(w) == WriteHeader(w, StatusOK)

\* var items []Item is nil until the first append.
NilSlice == [nil |-> TRUE, elems |-> << >>]
AppendItem(s, x) == [nil |-> FALSE, elems |-> Append(s.elems, x)]

RECURSIVE MarshalElems(_)
MarshalElems(xs) ==
    IF xs = << >> THEN << >>
    ELSE Marshal(Head(xs)) \o (IF Len(xs) > 1 THEN <<",">> ELSE << >>) \o MarshalElems(Tail(xs))

\* json.Marshal of a []Item: null for the nil slice.
MarshalSlice(s) ==
    IF s.nil THEN <<"n", "u", "l", "l">> ELSE <<"[">> \o MarshalElems(s.elems) \o <<"]">>

\* json.NewEncoder(w).Encode(v) writes the encoding and a newline.
EncodeItem(w, x) == Write(w, Marshal(x) \o <<"\n">>)
EncodeSlice(w, s) == Write(w, MarshalSlice(s) \o <<"\n">>)

(***************************************************************************)
(* State.                                                                  *)
(*   phase     where main is: "boot", "opened", "serving" or "fatal"       *)
(*   root      the committed database (what a new transaction sees)        *)
(*   rwlock    the client holding bbolt's writer lock, 0 when free         *)
(*   pc        per client: "idle", "begin" (db.Update called, waiting for  *)
(*             the writer lock), "fn" (inside the function of db.View),    *)
(*             "commit" (the function of db.Update returned nil), "done"   *)
(*             (the handler returned)                                      *)
(*   req       per client: the handler and the route id                    *)
(*   item      per client: the handler's local var item                    *)
(*   tx        per client: its transaction                                 *)
(*   items     per client: getAllItems' local var items                    *)
(*   w         per client: the ResponseWriter                              *)
(*   nreq      number of requests issued                                   *)
(*   lastWrite history: per key, the last committed write to it, and       *)
(*             whether a Create wrote the key since it was last absent     *)
(*   seen      history: per client, lastWrite when its read began          *)
(***************************************************************************)
VARIABLES phase, root, rwlock, pc, req, item, tx, items, w, nreq, lastWrite, seen

vars == <<phase, root, rwlock, pc, req, item, tx, items, w, nreq, lastWrite, seen>>

\* A database file left by an earlier run of the program, which created two
\* Items, and that run's history.
PriorItems == {Item(<<"a", "b">>, <<"n">>), Item(<<"b">>, <<"n">>)}
PriorDB == [bucket |-> TRUE,
            kv |-> [k \in {x.ID : x \in PriorItems} |->
                       Marshal(CHOOSE x \in PriorItems : x.ID = k)]]

AllKeys == RouteIDs \cup ({x.ID : x \in Items} \ {<< >>}) \cup DOMAIN PriorDB.kv
NoTx == [open |-> FALSE, writable |-> FALSE, db |-> NoBucketDB, cur |-> << >>]
NoReq == [op |-> "none", id |-> << >>]
NoWrite == [op |-> "none", item |-> ZeroItem, created |-> FALSE]
NoHistory == [k \in AllKeys |-> NoWrite]
ReadOps == {"getAllItems", "getItem"}
WriteOps == {"createItem", "updateItem", "deleteItem"}

PriorHistory ==
    [k \in AllKeys |->
        IF k \in DOMAIN PriorDB.kv
        THEN [op |-> "createItem", item |-> CHOOSE x \in PriorItems : x.ID = k,
              created |-> TRUE]
        ELSE NoWrite]

\* A database file in which another program left, between two Items, a value
\* that is not the encoding of an Item (a truncated one), and its history.
ForeignItems == {Item(<<"a">>, <<"n">>), Item(<<"b">>, <<"n">>)}
ForeignKey == <<"a", "b">>
ForeignDB == [bucket |-> TRUE,
              kv |-> [k \in {x.ID : x \in ForeignItems} \cup {ForeignKey} |->
                         IF k = ForeignKey THEN BadBody
                         ELSE Marshal(CHOOSE x \in ForeignItems : x.ID = k)]]
ForeignHistory ==
    [k \in AllKeys |->
        IF k = ForeignKey THEN [op |-> "foreign", item |-> ZeroItem, created |-> FALSE]
        ELSE IF k \in DOMAIN ForeignDB.kv
        THEN [op |-> "createItem", item |-> CHOOSE x \in ForeignItems : x.ID = k,
              created |-> TRUE]
        ELSE NoWrite]

Init ==
    /\ phase = "boot"
    /\ root \in {NoBucketDB, EmptyDB, PriorDB}
    /\ rwlock = 0
    /\ pc = [c \in Clients |-> "idle"]
    /\ req = [c \in Clients |-> NoReq]
    /\ item = [c \in Clients |-> ZeroItem]
    /\ tx = [c \in Clients |-> NoTx]
    /\ items = [c \in Clients |-> NilSlice]
    /\ w = [c \in Clients |-> NewWriter]
    /\ nreq = 0
    /\ lastWrite = IF root = PriorDB THEN PriorHistory ELSE NoHistory
    /\ seen = [c \in Clients |-> NoHistory]

(***************************************************************************)
(* main                                                                    *)
(***************************************************************************)
\* bolt.Open succeeds.
mainOpen ==
    /\ phase = "boot"
    /\ phase' = "opened"
    /\ UNCHANGED <<root, rwlock, pc, req, item, tx, items, w, nreq, lastWrite, seen>>

\* bolt.Open fails: log.Fatal.
mainOpenFatal ==
    /\ phase = "boot"
    /\ phase' = "fatal"
    /\ UNCHANGED <<root, rwlock, pc, req, item, tx, items, w, nreq, lastWrite, seen>>

\* db.Update(CreateBucketIfNotExists) commits; the routes are registered and
\* the server starts.
mainCreateBucket ==
    /\ phase = "opened"
    /\ rwlock = 0
    /\ root' = CreateBucketIfNotExists(root)
    /\ phase' = "serving"
    /\ UNCHANGED <<rwlock, pc, req, item, tx, items, w, nreq, lastWrite, seen>>

\* The transaction fails: log.Fatal.
mainCreateBucketFatal ==
    /\ phase = "opened"
    /\ phase' = "fatal"
    /\ UNCHANGED <<root, rwlock, pc, req, item, tx, items, w, nreq, lastWrite, seen>>

(***************************************************************************)
(* A request arrives, takes the first free client slot, and the router     *)
(* calls a handler.                                                        *)
(***************************************************************************)
Free(c) == pc[c] \in {"idle", "done"}
CanAccept(c) ==
    /\ phase = "serving"
    /\ Free(c)
    /\ \A d \in Clients : d < c => ~Free(d)
    /\ nreq < MaxRequests

\* The handler's locals at entry.
Enter(c, op, id) ==
    /\ req' = [req EXCEPT ![c] = [op |-> op, id |-> id]]
    /\ items' = [items EXCEPT ![c] = NilSlice]
    /\ nreq' = nreq + 1
    /\ UNCHANGED <<phase, root, rwlock, lastWrite>>

(***************************************************************************)
(* db.View and db.Update                                                   *)
(***************************************************************************)
\* The working copy of the write transaction of client c: the database as
\* committed when it began, with the transaction's own changes.
TxDB(c) == tx[c].db

\* Variant: a reader that looks at the committed database on every access.
ViewLive(c) == root
\* The database a read transaction of client c reads from.
ViewDB(c) == tx[c].db

\* db.View(fn): Begin(false) never waits and takes a snapshot of the
\* committed database; the transaction function runs next.
dbViewBegin(c) ==
    /\ tx' = [tx EXCEPT ![c] = [open |-> TRUE, writable |-> FALSE, db |-> root, cur |-> << >>]]
    /\ seen' = [seen EXCEPT ![c] = lastWrite]
    /\ pc' = [pc EXCEPT ![c] = "fn"]

\* Variant: db.View returns the function's error without a rollback.
dbViewRollbackUnlessErr(t, err) == IF err THEN t ELSE NoTx
\* db.View after the function returned: t.Rollback(), with or without error.
dbViewRollback(t, err) == NoTx

\* A write handler is called: no transaction yet.
NoTxYet(c) ==
    /\ tx' = [tx EXCEPT ![c] = NoTx]
    /\ seen' = [seen EXCEPT ![c] = NoHistory]

\* Variant: Begin(true) does not wait.
WriterLockIgnored == TRUE
\* The writer lock is free.
WriterLockFree == rwlock = 0

\* db.Update(fn): Begin(true) blocks until it holds the writer lock; the
\* transaction then works on a private copy of the committed database and
\* the transaction function runs next.
dbUpdateBegin(c) ==
    /\ pc[c] = "begin"
    /\ WriterLockFree

\* Variant: closing a write transaction leaves the writer lock with it.
rwlockKept(c) == c
\* tx.close() of a write transaction: db.rwlock.Unlock().
rwlockUnlock(c) == 0

\* Variant: a rollback that leaves the transaction's changes in place.
RollbackKeep(committed, working) == working
\* tx.Rollback(): the committed database stays as it was.
Rollback(committed, working) == committed

\* tx.Commit(): the working copy becomes the committed database.
Commit(committed, working) == working

(***************************************************************************)
(* getAllItems                                                             *)
(***************************************************************************)
getAllItemsCall(c) ==
    /\ CanAccept(c)
    /\ Enter(c, "getAllItems", << >>)
    /\ item' = [item EXCEPT ![c] = ZeroItem]
    /\ w' = [w EXCEPT ![c] = NewWriter]
    /\ dbViewBegin(c)

\* Variant: the error branch does not return and the items are encoded too.
getAllItemsRespondPartial(wr, err, its) ==
    IF err THEN EncodeSlice(HttpError(wr, StatusInternalServerError), its)
    ELSE EncodeSlice(wr, its)
\* What getAllItems writes once db.View has returned.
getAllItemsRespond(wr, err, its) ==
    IF err THEN HttpError(wr, StatusInternalServerError) ELSE EncodeSlice(wr, its)

\* One call of the function passed to b.ForEach.
getAllItemsForEach(c) ==
    /\ pc[c] = "fn"
    /\ req[c].op = "getAllItems"
    /\ ViewDB(c).bucket
    /\ HasNext(ViewDB(c).kv, tx[c].cur)
    /\ LET k == NextKey(ViewDB(c).kv, tx[c].cur)
           u == Unmarshal(ViewDB(c).kv[k])
       IN IF u.err
          THEN /\ tx' = [tx EXCEPT ![c] = dbViewRollback(tx[c], TRUE)]
               /\ root' = Rollback(root, ViewDB(c))
               /\ w' = [w EXCEPT ![c] = getAllItemsRespond(w[c], TRUE, items[c])]
               /\ pc' = [pc EXCEPT ![c] = "done"]
               /\ UNCHANGED items
          ELSE /\ items' = [items EXCEPT ![c] = AppendItem(items[c], u.item)]
               /\ tx' = [tx EXCEPT ![c].cur = k]
               /\ UNCHANGED <<root, w, pc>>
    /\ UNCHANGED <<phase, rwlock, req, item, nreq, lastWrite, seen>>

\* The bucket is missing or the iteration is over: db.View returns nil.
getAllItemsReturn(c) ==
    /\ pc[c] = "fn"
    /\ req[c].op = "getAllItems"
    /\ ~ViewDB(c).bucket \/ ~HasNext(ViewDB(c).kv, tx[c].cur)
    /\ tx' = [tx EXCEPT ![c] = dbViewRollback(tx[c], FALSE)]
    /\ root' = Rollback(root, ViewDB(c))
    /\ w' = [w EXCEPT ![c] = getAllItemsRespond(w[c], FALSE, items[c])]
    /\ pc' = [pc EXCEPT ![c] = "done"]
    /\ UNCHANGED <<phase, rwlock, req, item, items, nreq, lastWrite, seen>>

(***************************************************************************)
(* getItem                                                                 *)
(***************************************************************************)
getItemCall(c, id) ==
    /\ CanAccept(c)
    /\ Enter(c, "getItem", id)
    /\ item' = [item EXCEPT ![c] = ZeroItem]
    /\ w' = [w EXCEPT ![c] = NewWriter]
    /\ dbViewBegin(c)

\* The whole of getItem after Begin: the transaction function, then the
\* error check and the Encode that follow db.View.  Result: item and writer.
getItemBody(db, id, wr) ==
    IF ~db.bucket THEN [item |-> ZeroItem, w |-> EncodeItem(wr, ZeroItem)]
    ELSE IF ~Has(db.kv, id)
         THEN [item |-> ZeroItem, w |-> EncodeItem(HttpNotFound(wr), ZeroItem)]
    ELSE LET u == Unmarshal(db.kv[id]) IN
         IF u.err THEN [item |-> u.item, w |-> HttpError(wr, StatusInternalServerError)]
         ELSE [item |-> u.item, w |-> EncodeItem(wr, u.item)]

\* Whether the function getItem passes to db.View returns an error.
getItemErr(db, id) == db.bucket /\ Has(db.kv, id) /\ Unmarshal(db.kv[id]).err

getItemFn(c) ==
    /\ pc[c] = "fn"
    /\ req[c].op = "getItem"
    /\ LET r == getItemBody(ViewDB(c), req[c].id, w[c])
       IN /\ item' = [item EXCEPT ![c] = r.item]
          /\ w' = [w EXCEPT ![c] = r.w]
    /\ tx' = [tx EXCEPT ![c] = dbViewRollback(tx[c], getItemErr(ViewDB(c), req[c].id))]
    /\ root' = Rollback(root, ViewDB(c))
    /\ pc' = [pc EXCEPT ![c] = "done"]
    /\ UNCHANGED <<phase, rwlock, req, items, nreq, lastWrite, seen>>

(***************************************************************************)
(* createItem, updateItem, deleteItem                                      *)
(***************************************************************************)
\* Variant: the handler goes on with whatever the decoder left in item.
DecodeBodyUnchecked(c, body) ==
    /\ item' = [item EXCEPT ![c] = Unmarshal(body).item]
    /\ w' = [w EXCEPT ![c] = NewWriter]
    /\ pc' = [pc EXCEPT ![c] = "begin"]
\* json.NewDecoder(r.Body).Decode(&item) and the 400 that follows a failure.
DecodeBody(c, body) ==
    LET u == Unmarshal(body) IN
    IF u.err
    THEN /\ item' = [item EXCEPT ![c] = ZeroItem]
         /\ w' = [w EXCEPT ![c] = HttpError(NewWriter, StatusBadRequest)]
         /\ pc' = [pc EXCEPT ![c] = "done"]
    ELSE /\ item' = [item EXCEPT ![c] = u.item]
         /\ w' = [w EXCEPT ![c] = NewWriter]
         /\ pc' = [pc EXCEPT ![c] = "begin"]

createItemCall(c, body) ==
    /\ CanAccept(c)
    /\ Enter(c, "createItem", << >>)
    /\ NoTxYet(c)
    /\ DecodeBody(c, body)

updateItemCall(c, id, body) ==
    /\ CanAccept(c)
    /\ Enter(c, "updateItem", id)
    /\ NoTxYet(c)
    /\ DecodeBody(c, body)

deleteItemCall(c, id) ==
    /\ CanAccept(c)
    /\ Enter(c, "deleteItem", id)
    /\ NoTxYet(c)
    /\ item' = [item EXCEPT ![c] = ZeroItem]
    /\ w' = [w EXCEPT ![c] = NewWriter]
    /\ pc' = [pc EXCEPT ![c] = "begin"]

\* Variant: createItem writes every Item under one key.
createItemKeyFixed(x) == <<"b">>
\* The key each handler writes.
createItemKey(x) == x.ID
\* Variant: updateItem writes under the payload's ID.
updateItemKeyPayload(id, x) == x.ID
updateItemKey(id, x) == id

\* What each handler writes once db.Update has returned.
createItemRespond(wr, err) ==
    IF err THEN HttpError(wr, StatusInternalServerError) ELSE WriteHeader(wr, StatusCreated)
updateItemRespond(wr, err) ==
    IF err THEN HttpError(wr, StatusInternalServerError) ELSE Finish(wr)
deleteItemRespond(wr, err) ==
    IF err THEN HttpError(wr, StatusInternalServerError) ELSE Finish(wr)
Respond(op, wr, err) ==
    IF op = "createItem" THEN createItemRespond(wr, err)
    ELSE IF op = "updateItem" THEN updateItemRespond(wr, err)
    ELSE deleteItemRespond(wr, err)

\* The transaction function or the commit returned an error: db.Update
\* rolls back what the transaction changed (working), releases the writer
\* lock and the handler answers 500.
FnFailed(c, working) ==
    /\ root' = Rollback(root, working)
    /\ rwlock' = rwlockUnlock(c)
    /\ tx' = [tx EXCEPT ![c] = NoTx]
    /\ w' = [w EXCEPT ![c] = Respond(req[c].op, w[c], TRUE)]
    /\ pc' = [pc EXCEPT ![c] = "done"]

\* The transaction function returned nil: db.Update goes on to Commit.
FnReturned(c, kv) ==
    /\ rwlock' = c
    /\ tx' = [tx EXCEPT ![c] = [open |-> TRUE, writable |-> TRUE,
                                db |-> [root EXCEPT !.kv = kv], cur |-> << >>]]
    /\ pc' = [pc EXCEPT ![c] = "commit"]
    /\ UNCHANGED <<root, w>>

\* The function createItem passes to db.Update.
createItemFn(c) ==
    /\ req[c].op = "createItem"
    /\ dbUpdateBegin(c)
    /\ IF ~root.bucket THEN FnReturned(c, root.kv)
       ELSE IF PutErr(createItemKey(item[c])) THEN FnFailed(c, root)
       ELSE FnReturned(c, Put(root.kv, createItemKey(item[c]), Marshal(item[c])))
    /\ UNCHANGED <<phase, req, item, items, nreq, lastWrite, seen>>

\* The function updateItem passes to db.Update.
updateItemFn(c) ==
    /\ req[c].op = "updateItem"
    /\ dbUpdateBegin(c)
    /\ IF ~root.bucket THEN FnReturned(c, root.kv)
       ELSE IF PutErr(updateItemKey(req[c].id, item[c])) THEN FnFailed(c, root)
       ELSE FnReturned(c, Put(root.kv, updateItemKey(req[c].id, item[c]), Marshal(item[c])))
    /\ UNCHANGED <<phase, req, item, items, nreq, lastWrite, seen>>

\* The function deleteItem passes to db.Update.
deleteItemFn(c) ==
    /\ req[c].op = "deleteItem"
    /\ dbUpdateBegin(c)
    /\ IF ~root.bucket THEN FnReturned(c, root.kv)
       ELSE IF DeleteErr(root.kv, req[c].id) THEN FnFailed(c, root)
       ELSE FnReturned(c, Delete(root.kv, req[c].id))
    /\ UNCHANGED <<phase, req, item, items, nreq, lastWrite, seen>>

\* History: the call that commits, filed under the key the call addresses
\* (Create(x): x.ID; Update(id, x) and Delete(id): id).
Addressed(c) == IF req[c].op = "createItem" THEN item[c].ID ELSE req[c].id
Recorded(c) ==
    IF TxDB(c).bucket
    THEN [lastWrite EXCEPT ![Addressed(c)] =
             [op |-> req[c].op, item |-> item[c],
              created |-> IF req[c].op = "createItem" THEN TRUE
                          ELSE IF req[c].op = "deleteItem" THEN FALSE
                          ELSE @.created]]
    ELSE lastWrite

\* tx.Commit() succeeds: the changes become visible, the lock is released
\* and the handler answers.
dbUpdateCommit(c) ==
    /\ pc[c] = "commit"
    /\ root' = Commit(root, TxDB(c))
    /\ rwlock' = rwlockUnlock(c)
    /\ tx' = [tx EXCEPT ![c] = NoTx]
    /\ w' = [w EXCEPT ![c] = Respond(req[c].op, w[c], FALSE)]
    /\ pc' = [pc EXCEPT ![c] = "done"]
    /\ lastWrite' = Recorded(c)
    /\ UNCHANGED <<phase, req, item, items, nreq, seen>>

\* tx.Commit() fails (an I/O error): it rolls back and returns the error.
dbUpdateCommitFail(c) ==
    /\ pc[c] = "commit"
    /\ FnFailed(c, TxDB(c))
    /\ UNCHANGED <<phase, req, item, items, nreq, lastWrite, seen>>

Next ==
    \/ mainOpen
    \/ mainOpenFatal
    \/ mainCreateBucket
    \/ mainCreateBucketFatal
    \/ \E c \in Clients : getAllItemsCall(c)
    \/ \E c \in Clients : \E id \in RouteIDs : getItemCall(c, id)
    \/ \E c \in Clients : \E body \in Bodies : createItemCall(c, body)
    \/ \E c \in Clients : \E id \in RouteIDs : \E body \in Bodies : updateItemCall(c, id, body)
    \/ \E c \in Clients : \E id \in RouteIDs : deleteItemCall(c, id)
    \/ \E c \in Clients : getAllItemsForEach(c)
    \/ \E c \in Clients : getAllItemsReturn(c)
    \/ \E c \in Clients : getItemFn(c)
    \/ \E c \in Clients : createItemFn(c)
    \/ \E c \in Clients : updateItemFn(c)
    \/ \E c \in Clients : deleteItemFn(c)
    \/ \E c \in Clients : dbUpdateCommit(c)
    \/ \E c \in Clients : dbUpdateCommitFail(c)

Spec == Init /\ [][Next]_vars

\* The program started on a fresh file or on the file with the foreign value.
InitForeign ==
    /\ phase = "boot"
    /\ root \in {NoBucketDB, ForeignDB}
    /\ rwlock = 0
    /\ pc = [c \in Clients |-> "idle"]
    /\ req = [c \in Clients |-> NoReq]
    /\ item = [c \in Clients |-> ZeroItem]
    /\ tx = [c \in Clients |-> NoTx]
    /\ items = [c \in Clients |-> NilSlice]
    /\ w = [c \in Clients |-> NewWriter]
    /\ nreq = 0
    /\ lastWrite = IF root = ForeignDB THEN ForeignHistory ELSE NoHistory
    /\ seen = [c \in Clients |-> NoHistory]

SpecForeign == InitForeign /\ [][Next]_vars

\* Scheduling: a goroutine that can run does run, so a transaction function
\* that returned is followed by Commit (weak fairness); db.rwlock is a
\* sync.Mutex, which hands the lock to a waiter that kept failing to get it
\* (starvation mode), so a writer that finds the lock free again and again
\* gets it (strong fairness).  The program starts on the database of the
\* earlier run.
FairInit == Init /\ root = PriorDB
Fairness ==
    \A c \in Clients :
        /\ SF_vars(createItemFn(c) \/ updateItemFn(c) \/ deleteItemFn(c))
        /\ WF_vars(dbUpdateCommit(c) \/ dbUpdateCommitFail(c))
FairSpec == FairInit /\ [][Next]_vars /\ Fairness

TypeOK ==
    /\ phase \in {"boot", "opened", "serving", "fatal"}
    /\ rwlock \in {0} \cup Clients
    /\ nreq \in 0..MaxRequests
    /\ \A c \in Clients : pc[c] \in {"idle", "begin", "fn", "commit", "done"}

(***************************************************************************)
(* Vocabulary of the properties.                                           *)
(***************************************************************************)
\* A finished call of a handler.
Done(c, op) == pc[c] = "done" /\ req[c].op = op

\* The Item a 200 response of getItem carries.
ReturnedItem(wr) == Unmarshal(SubSeq(wr.body[1], 1, Len(wr.body[1]) - 1))
ReturnsItem(wr, x) ==
    /\ wr.status = StatusOK
    /\ Len(wr.body) = 1
    /\ ~ReturnedItem(wr).err
    /\ ReturnedItem(wr).item = x

\* The keys a history says are in the namespace.
Present(h) == {k \in AllKeys : h[k].op \in {"createItem", "updateItem"}}

\* C1: a Read(id) whose transaction began when the last committed write to
\* key id was Create(x), x.ID = id, answers 200 with an Item equal to x.
C1_CreateThenRead ==
    \A c \in Clients :
        (Done(c, "getItem") /\ seen[c][req[c].id].op = "createItem")
        => ReturnsItem(w[c], seen[c][req[c].id].item)

\* A Read returned a created Item whose Name needs escaping in JSON.
C1_Witness ==
    \E c \in Clients :
        /\ Done(c, "getItem")
        /\ seen[c][req[c].id].op = "createItem"
        /\ seen[c][req[c].id].item.Name = <<Quote>>
        /\ w[c].status = StatusOK

\* C2: a Read(id) whose transaction began when the last committed write to
\* key id was Delete(id) answers 404, the not-found text first.
C2_DeleteThenRead ==
    \A c \in Clients :
        (Done(c, "getItem") /\ seen[c][req[c].id].op = "deleteItem")
        => w[c].status = StatusNotFound /\ w[c].body[1] = NotFoundText

\* A Read answered 404 for a key that was created and then deleted.
C2_Witness ==
    \E c \in Clients :
        /\ Done(c, "getItem")
        /\ seen[c][req[c].id].op = "deleteItem"
        /\ w[c].status = StatusNotFound

\* C3: after Update(a, x) with x.ID = b # a has committed (and nothing has
\* written key a since), Read(a) answers 200 with x; and Read(b) answers 404
\* when no call addressed to key b has ever committed.
C3_UpdateByRouteKey ==
    \A c \in Clients :
        Done(c, "getItem") =>
            /\ seen[c][req[c].id].op = "updateItem"
               => ReturnsItem(w[c], seen[c][req[c].id].item)
            /\ \A a \in RouteIDs :
                   (/\ seen[c][a].op = "updateItem"
                    /\ seen[c][a].item.ID = req[c].id
                    /\ a # req[c].id
                    /\ seen[c][req[c].id].op = "none")
                   => w[c].status = StatusNotFound

\* Update(a, x) with x.ID = b # a committed while key b had never been
\* written, and a Read(a) returned x, whose ID is b.
C3_Witness ==
    \E c \in Clients :
        /\ Done(c, "getItem")
        /\ seen[c][req[c].id].op = "updateItem"
        /\ item[c].ID \in RouteIDs \ {req[c].id}
        /\ seen[c][item[c].ID].op = "none"
        /\ w[c].status = StatusOK

\* The key was absent when the Read of client c began.
AbsentAtRead(c) == req[c].id \notin Present(seen[c])

\* C4 (as claimed): a Read of an absent key answers 404, and its response is
\* the one getItem gives when the items bucket does not exist.
C4_SameNotFound ==
    \A c \in Clients :
        (Done(c, "getItem") /\ AbsentAtRead(c))
        => /\ w[c].status = StatusNotFound
           /\ w[c] = getItemBody(NoBucketDB, req[c].id, NewWriter).w

\* The response carries the encoding of an Item.
EmitsItem(wr) ==
    \E i \in 1..Len(wr.body) :
        /\ Len(wr.body[i]) > 1
        /\ ~Unmarshal(SubSeq(wr.body[i], 1, Len(wr.body[i]) - 1)).err

\* C5 (as claimed): a Read answers 200, 404 or 500; 404 without an Item
\* payload when the key is absent; an Item payload only with 200 for a key
\* that was found.
C5_OneOutcome ==
    \A c \in Clients :
        Done(c, "getItem") =>
            /\ w[c].status \in {StatusOK, StatusNotFound, StatusInternalServerError}
            /\ AbsentAtRead(c) => (w[c].status = StatusNotFound /\ ~EmitsItem(w[c]))
            /\ EmitsItem(w[c]) => (w[c].status = StatusOK /\ ~AbsentAtRead(c))

KeyOrdered(ks) == \A i, j \in 1..Len(ks) : i < j => LexLess(ks[i], ks[j])

\* ReadAll of client c returned one Item per key of its snapshot, in
\* ascending byte order of the keys.
OnePerKeyInKeyOrder(c) ==
    /\ w[c].status = StatusOK
    /\ w[c].body = <<MarshalSlice(items[c]) \o <<"\n">>>>
    /\ Len(items[c].elems) = Cardinality(Present(seen[c]))
    /\ \E ks \in [1..Len(items[c].elems) -> Present(seen[c])] :
           /\ KeyOrdered(ks)
           /\ \A i \in 1..Len(ks) : items[c].elems[i] = seen[c][ks[i]].item

\* C6 (amended): ReadAll returns exactly one Item per key in the namespace,
\* in ascending order of the storage keys, whatever the order of insertion.
C6_KeyOrder == \A c \in Clients : Done(c, "getAllItems") => OnePerKeyInKeyOrder(c)

\* C6 (as claimed): and that order is the lexicographic order of the IDs of
\* the returned Items.
C6_IdOrder ==
    \A c \in Clients :
        Done(c, "getAllItems") =>
            /\ OnePerKeyInKeyOrder(c)
            /\ KeyOrdered([i \in 1..Len(items[c].elems) |-> items[c].elems[i].ID])

\* A ReadAll returned three Items.
C6_Witness == \E c \in Clients : Done(c, "getAllItems") /\ Len(items[c].elems) = 3

\* The keys of the snapshot that the iteration of client c has passed.
Visited(c) == {k \in Present(seen[c]) : ~LexLess(tx[c].cur, k)}

\* C7: while a read transaction is open it reads the namespace as committed
\* when it began, whatever has been committed since; the Items collected so
\* far and the final result of Read and ReadAll come from that snapshot.
C7_SnapshotIsolation ==
    \A c \in Clients :
        /\ (pc[c] = "fn" /\ req[c].op \in ReadOps)
           => ViewDB(c).kv = [k \in Present(seen[c]) |-> Marshal(seen[c][k].item)]
        /\ (pc[c] = "fn" /\ req[c].op = "getAllItems")
           => /\ Len(items[c].elems) = Cardinality(Visited(c))
              /\ \A i \in 1..Len(items[c].elems) :
                     \E k \in Visited(c) : items[c].elems[i] = seen[c][k].item
        /\ Done(c, "getAllItems")
           => /\ Len(items[c].elems) = Cardinality(Present(seen[c]))
              /\ \A i \in 1..Len(items[c].elems) :
                     \E k \in Present(seen[c]) : items[c].elems[i] = seen[c][k].item
        /\ (Done(c, "getItem") /\ ~AbsentAtRead(c))
           => ReturnsItem(w[c], seen[c][req[c].id].item)
        /\ (Done(c, "getItem") /\ AbsentAtRead(c)) => w[c].status = StatusNotFound

\* A ReadAll is in the middle of its iteration and the committed namespace
\* is no longer the one it reads.
C7_Witness ==
    \E c \in Clients :
        /\ pc[c] = "fn" /\ req[c].op = "getAllItems"
        /\ tx[c].cur # << >>
        /\ HasNext(ViewDB(c).kv, tx[c].cur)
        /\ root.kv # ViewDB(c).kv

\* The clients inside a write transaction.
Writers == {c \in Clients : tx[c].open /\ tx[c].writable}

\* C8: at most one client is inside a write transaction, it holds the writer
\* lock, and a write call is past Begin only inside that transaction.
C8_SingleWriter ==
    /\ Cardinality(Writers) <= 1
    /\ \A c \in Writers : rwlock = c
    /\ \A c \in Clients :
           (req[c].op \in WriteOps /\ pc[c] = "commit") => c \in Writers

\* One write call is inside its transaction while another one waits in Begin.
C8_Witness ==
    \E c, d \in Clients :
        /\ c \in Writers
        /\ pc[d] = "begin" /\ req[d].op \in WriteOps

\* C9: a Delete(id) whose key is not in the namespace gets no error from the
\* bucket, leaves its working copy and the committed namespace as they
\* were, and answers 200 unless the commit itself fails.
C9_IdempotentDelete ==
    [][\A c \in Clients :
           (/\ req[c].op = "deleteItem"
            /\ root.bucket
            /\ ~Has(root.kv, req[c].id))
           => /\ (pc[c] = "begin" /\ pc'[c] # "begin")
                 => (pc'[c] = "commit" /\ tx'[c].db = root)
              /\ (pc[c] = "commit" /\ pc'[c] = "done")
                 => /\ root' = root
                    /\ w'[c].status = StatusOK \/ dbUpdateCommitFail(c)]_vars

\* A second Delete(id) is about to commit after an earlier Delete(id) did.
C9_Witness ==
    \E c \in Clients :
        /\ pc[c] = "commit" /\ req[c].op = "deleteItem"
        /\ lastWrite[req[c].id].op = "deleteItem"
        /\ ~Has(root.kv, req[c].id)

\* C10: a write call that ends with 500 has rolled back and leaves the
\* committed database as it was; one that ends with 200 or 201 ends in the
\* step that commits its transaction.
C10_FailureAtomicity ==
    [][\A c \in Clients :
           (req[c].op \in WriteOps /\ pc[c] \in {"begin", "commit"} /\ pc'[c] = "done")
           => /\ w'[c].status \in {StatusOK, StatusCreated, StatusInternalServerError}
              /\ w'[c].status = StatusInternalServerError
                 => (root' = root /\ ~tx'[c].open /\ rwlock' = 0)
              /\ w'[c].status \in {StatusOK, StatusCreated}
                 => (pc[c] = "commit" /\ root' = tx[c].db /\ ~tx'[c].open /\ rwlock' = 0)]_vars

\* A Create or Update with a usable key ended with 500 after a failed commit
\* and its key is still absent.
C10_Witness ==
    \E c \in Clients :
        /\ pc[c] = "done" /\ req[c].op \in {"createItem", "updateItem"}
        /\ w[c].status = StatusInternalServerError
        /\ Addressed(c) # << >>
        /\ ~Has(root.kv, Addressed(c))

\* The keys a history says hold a value that is not the encoding of an Item.
Undecodable(h) == {k \in AllKeys : h[k].op = "foreign"}

\* The keys of the snapshot of client c that sort before every undecodable one.
BeforeFailure(c) ==
    {k \in Present(seen[c]) : \A u \in Undecodable(seen[c]) : LexLess(k, u)}

\* C11: a ReadAll whose snapshot holds an undecodable value stops at it (it
\* decoded exactly the entries before it), answers 500, and its response
\* carries the error text only: no Item, no array.
C11_AllOrNothing ==
    \A c \in Clients :
        (Done(c, "getAllItems") /\ Undecodable(seen[c]) # {})
        => /\ w[c].status = StatusInternalServerError
           /\ w[c].body = <<ErrorText>>
           /\ ~EmitsItem(w[c])
           /\ Len(items[c].elems) = Cardinality(BeforeFailure(c))

\* A ReadAll decoded an Item, then met the undecodable value and answered 500.
C11_Witness ==
    \E c \in Clients :
        /\ Done(c, "getAllItems")
        /\ Undecodable(seen[c]) # {}
        /\ Len(items[c].elems) >= 1
        /\ w[c].status = StatusInternalServerError

\* C12 (as claimed): a ReadAll on a snapshot without entries answers 200 with
\* the empty array.
C12_EmptyArray ==
    \A c \in Clients :
        (Done(c, "getAllItems") /\ Present(seen[c]) = {} /\ Undecodable(seen[c]) = {})
        => /\ w[c].status = StatusOK
           /\ w[c].body = << <<"[", "]", "\n">> >>

\* The transactions that read, and the Items this and the earlier run were
\* given.
Readers == {c \in Clients : tx[c].open /\ ~tx[c].writable}
PassedItems == Items \cup PriorItems

\* Every value of the key/value map kv is the encoding of the Item that the
\* history h records as last written, by a committed Create or Update, under
\* its key.
CompleteEncodings(kv, h) ==
    \A k \in DOMAIN kv :
        /\ k \in Present(h)
        /\ h[k].item \in PassedItems
        /\ kv[k] = Marshal(h[k].item)
        /\ Unmarshal(kv[k]) = [err |-> FALSE, item |-> h[k].item]

\* C13: what a read transaction sees, and what one that began now would see,
\* holds complete encodings of committed Items only.
C13_OnlyCompleteEncodings ==
    /\ CompleteEncodings(root.kv, lastWrite)
    /\ \A c \in Readers : CompleteEncodings(ViewDB(c).kv, seen[c])

\* A read transaction is open on a key that another call's Create or Update
\* addressed with a write that failed and was rolled back.
C13_Witness ==
    \E c \in Readers : \E d \in Clients \ {c} :
        /\ pc[d] = "done" /\ req[d].op \in {"createItem", "updateItem"}
        /\ w[d].status = StatusInternalServerError
        /\ Addressed(d) \in DOMAIN ViewDB(c).kv

\* The ID of the Item the committed value of key k decodes to.
StoredID(k) == Unmarshal(root.kv[k]).item.ID

\* C14 (as claimed): a key a Create wrote holds, as long as it is present, an
\* Item whose ID is the key.
C14_KeyIdAgreement ==
    \A k \in AllKeys \cap DOMAIN root.kv :
        lastWrite[k].created => StoredID(k) = k

\* The last committed write to key k is an Update whose payload has another ID.
ReKeyed(k) == lastWrite[k].op = "updateItem" /\ lastWrite[k].item.ID # k

\* C14: a key a Create wrote holds, as long as it is present, an Item whose ID
\* is the key, unless an Update with a payload of another ID wrote it last.
C14_KeyIdAgreementUnlessReKeyed ==
    \A k \in AllKeys \cap DOMAIN root.kv :
        (lastWrite[k].created /\ ~ReKeyed(k))
        => (~Unmarshal(root.kv[k]).err /\ StoredID(k) = k)

\* A key a Create wrote was then written by an Update with the same ID.
C14_Witness ==
    \E k \in AllKeys \cap DOMAIN root.kv :
        /\ lastWrite[k].created
        /\ lastWrite[k].op = "updateItem"
        /\ lastWrite[k].item.ID = k

\* The calls in progress: called and not yet returned.
Running == {c \in Clients : pc[c] \in {"begin", "fn", "commit"}}

\* C15: no handler is called before startup created the bucket or after
\* startup aborted; while the server serves the bucket exists, every
\* transaction sees it, and no step drops it.
C15_NamespaceLifecycle ==
    /\ [](/\ phase # "serving" => \A c \in Clients : pc[c] = "idle" /\ ~tx[c].open
          /\ phase = "serving" => root.bucket
          /\ \A c \in Clients : pc[c] # "idle" => root.bucket
          /\ \A c \in Clients : tx[c].open => tx[c].db.bucket)
    /\ [][root.bucket => root'.bucket]_vars

\* A handler runs a transaction on the database whose bucket startup created.
C15_Witness ==
    /\ phase = "serving"
    /\ lastWrite = NoHistory
    /\ \E c \in Running : tx[c].open /\ tx[c].db = EmptyDB

\* C16: a createItem or updateItem call whose body does not parse returns at
\* once with 400, without a transaction and with the database as it was; a
\* call goes on to db.Update only with the Item its body parsed to, so every
\* write transaction of Create/Update carries a parsed Item.
C16_BadBodyRejected ==
    /\ [][\A c \in Clients : \A body \in Bodies :
            (createItemCall(c, body) \/ \E id \in RouteIDs : updateItemCall(c, id, body))
            => IF Unmarshal(body).err
               THEN /\ pc'[c] = "done"
                    /\ w'[c].status = StatusBadRequest
                    /\ ~tx'[c].open
                    /\ <<root, rwlock, lastWrite>>' = <<root, rwlock, lastWrite>>
               ELSE /\ pc'[c] = "begin"
                    /\ item'[c] = Unmarshal(body).item]_vars
    /\ [](\A c \in Running :
            req[c].op \in {"createItem", "updateItem"}
            => \E body \in Bodies : Unmarshal(body) = [err |-> FALSE, item |-> item[c]])
    /\ [](\A c \in Clients :
            (pc[c] = "done" /\ w[c].status = StatusBadRequest) => ~tx[c].open)

\* An updateItem call was answered 400 and the database holds what it held.
C16_Witness ==
    \E c \in Clients :
        /\ Done(c, "updateItem")
        /\ w[c].status = StatusBadRequest
        /\ root = PriorDB
        /\ lastWrite = PriorHistory

\* C17: a write call that waits in db.Update for the writer lock eventually
\* gets it and returns.
C17_WriterProgress ==
    \A c \in Clients : (pc[c] = "begin") ~> (pc[c] = "done")

\* A write call waits for the writer lock while the transaction function of
\* another has returned and its Commit has not.
C17_Witness ==
    \E c \in Clients : \E d \in Clients \ {c} :
        /\ pc[c] = "begin"
        /\ pc[d] = "commit"
        /\ rwlock = d

\* C18: a call has a transaction exactly while it is inside db.View or between
\* the transaction function and Commit of db.Update; a transaction is opened
\* only by a handler entering db.View or by a waiting writer, one per call,
\* its end is the call's return, and a call that returned holds neither a
\* transaction nor the writer lock.
C18_TransactionReleased ==
    /\ [](\A c \in Clients :
            /\ tx[c].open <=> pc[c] \in {"fn", "commit"}
            /\ pc[c] \in {"idle", "done"} => rwlock # c)
    /\ [][\A c \in Clients :
            /\ (~tx[c].open /\ tx'[c].open)
               => \/ Free(c) /\ pc'[c] = "fn" /\ req'[c].op \in ReadOps
                  \/ pc[c] = "begin" /\ pc'[c] = "commit" /\ req[c].op \in WriteOps
            /\ (tx[c].open /\ ~tx'[c].open) => pc'[c] = "done"
            /\ (tx[c].open /\ tx'[c].open) => tx'[c].db = tx[c].db]_vars

\* A ReadAll returned after a decode failure in the middle of its iteration
\* and a write call returned after its Commit failed; no transaction is left.
C18_Witness ==
    \E c \in Clients : \E d \in Clients \ {c} :
        /\ Done(c, "getAllItems") /\ w[c].status = StatusInternalServerError
        /\ Len(items[c].elems) >= 1
        /\ pc[d] = "done" /\ req[d].op \in WriteOps
        /\ w[d].status = StatusInternalServerError
        /\ \A e \in Clients : ~tx[e].open
        /\ rwlock = 0

\* A step of the Read or ReadAll call of client c: the handler is called, or
\* it moves on inside db.View, or it returns.
ReadStep(c) ==
    \/ Free(c) /\ pc'[c] = "fn" /\ req'[c].op \in ReadOps
    \/ pc[c] = "fn" /\ req[c].op \in ReadOps /\ <<pc[c], tx[c], items[c], w[c]>>' # <<pc[c], tx[c], items[c], w[c]>>

\* C19: no step of a Read or ReadAll call, whatever its outcome, changes the
\* committed database, takes the writer lock or counts as a write.
C19_ReadsDoNotMutate ==
    [][\A c \in Clients :
         ReadStep(c) => <<root, rwlock, lastWrite>>' = <<root, rwlock, lastWrite>>]_vars

\* A ReadAll ended with 500 on the undecodable value after another call
\* committed a write during its iteration; the database holds that write.
C19_Witness ==
    \E c \in Clients :
        /\ Done(c, "getAllItems")
        /\ w[c].status = StatusInternalServerError
        /\ lastWrite # seen[c]
        /\ \E k \in AllKeys : /\ lastWrite[k] # seen[c][k]
                              /\ Has(root.kv, k) <=> lastWrite[k].op # "deleteItem"

\* All keys of the committed database before and after a step.
KeysAcross == DOMAIN root.kv \cup DOMAIN root'.kv

\* The step commits the write of client c, and changes nothing but the key the
\* call addresses: that key holds the call's Item, or is gone after a Delete.
CommitsOneKey(c) ==
    /\ pc[c] = "commit" /\ pc'[c] = "done"
    /\ w'[c].status \in {StatusOK, StatusCreated}
    /\ \A k \in KeysAcross \ {Addressed(c)} :
         /\ Has(root.kv, k) /\ Has(root'.kv, k)
         /\ root'.kv[k] = root.kv[k]
    /\ IF req[c].op = "deleteItem" THEN ~Has(root'.kv, Addressed(c))
       ELSE Has(root'.kv, Addressed(c)) /\ root'.kv[Addressed(c)] = Marshal(item[c])

\* C20: a step that changes the entries of the namespace is the commit of one
\* Create, Update or Delete and changes the addressed key only; and every
\* commit of a write call is such a step.
C20_SingleKeyFrame ==
    /\ [][root'.kv # root.kv => \E c \in Clients : CommitsOneKey(c)]_vars
    /\ [][\A c \in Clients : dbUpdateCommit(c) => CommitsOneKey(c)]_vars

\* Delete("b") committed on the database of the earlier run: key ab is still
\* there with the value it had.
C20_Witness ==
    \E c \in Clients :
        /\ Done(c, "deleteItem") /\ req[c].id = <<"b">>
        /\ w[c].status = StatusOK
        /\ lastWrite[<<"b">>].op = "deleteItem"
        /\ DOMAIN root.kv = {<<"a", "b">>}
        /\ root.kv[<<"a", "b">>] = PriorDB.kv[<<"a", "b">>]

====
